---- MODULE Spec2Model ----
(***************************************************************************)
(* A model of the reddit-mcp client (src/client.py): the MCPClient session *)
(* history, the two provider bindings process_query_claude and             *)
(* process_query_gpt, and the outer loops chat_loop and query_loop.        *)
(* The LLM providers and the Tool Host are the environment: every call to  *)
(* them either returns a value drawn from a small set or raises.           *)
(* Spec is the client process.  ServerSpec is the server process           *)
(* (src/server/reddit.py): one invocation of one of its tool functions,    *)
(* with Reddit as the environment.                                         *)
(***************************************************************************)
EXTENDS Integers, Sequences, FiniteSets, TLC

\* ------------------------------------------------------------------ bounds
\* respond calls (process_query_*) per session
MaxCalls == 2
\* completions and tool results the LLM and the Tool Host return per session
MaxResponses == 6
\* content fragments per Claude completion / tool calls per GPT message
MaxFrags == 2
\* submissions a search returns
MaxPosts == 2
\* entries (comments and placeholders) of a submission's comment forest
MaxComments == 2

\* ------------------------------------------------------- values and helpers
\* self.system_prompt
system_prompt == "system_prompt"

\* the tools the server registers with @mcp.tool()
ToolNames == <<"search_posts", "get_submission_comments", "search_comments_in_posts">>

\* what session.list_tools() returns: one descriptor per registered tool
ListedTools ==
    [i \in 1..Len(ToolNames) |->
        [name |-> ToolNames[i], description |-> "doc", inputSchema |-> "schema"]]

\* the list comprehension of process_query_claude
AdaptClaude(tools) ==
    [i \in 1..Len(tools) |->
        [name |-> tools[i].name,
         description |-> tools[i].description,
         input_schema |-> tools[i].inputSchema]]

\* the list comprehension of process_query_gpt
AdaptGpt(tools) ==
    [i \in 1..Len(tools) |->
        [type |-> "function",
         function |-> [name |-> tools[i].name,
                       description |-> tools[i].description,
                       parameters |-> tools[i].inputSchema]]]

\* "\n".join(final_text)
RECURSIVE Join(_)
Join(s) ==
    IF s = <<>> THEN ""
    ELSE IF Len(s) = 1 THEN s[1]
    ELSE s[1] \o "\n" \o Join(Tail(s))

\* the structured arguments of a tool request: the mapping {"a": 1}
ArgsDict == [a |-> 1]

\* str() of a mapping, as the f-string of the trace fragment formats it
PyStr(d) == IF d = ArgsDict THEN "{'a': 1}" ELSE "{}"

\* the trace fragment f"[Calling tool {tool_name} with args {tool_args}]"
Trace(tool_name, tool_args) ==
    "[Calling tool " \o tool_name \o " with args " \o PyStr(tool_args) \o "]"

\* tool_call.function.arguments as the OpenAI SDK delivers it: encoded text (the
\* SDK types the field as str), well formed or not
ArgsEncoded == [kind |-> "str", val |-> "{\"a\": 1}"]
ArgsMalformed == [kind |-> "str", val |-> "{\"a\": "]

\* isinstance(tool_args, str)
IsStr(tool_args) == tool_args.kind = "str"

\* whether json.loads(text) succeeds
JsonOk(text) == text = "{\"a\": 1}"

\* json.loads(text) for well-formed text
JsonLoads(text) == IF text = "{\"a\": 1}" THEN ArgsDict ELSE <<>>

Last(s) == s[Len(s)]

IsPrefix(s, t) == Len(s) <= Len(t) /\ SubSeq(t, 1, Len(s)) = s

\* ---------------------------------------------------------- input lines
\* a line typed at the prompt, as its characters
Lines ==
    { <<"h", "i">>,
      <<"q", "u", "i", "t">>,
      <<" ", "Q", "u", "i", "t", " ">> }

IsSpace(c) == c = " "

\* str.strip(): drop leading and trailing whitespace
RECURSIVE LStrip(_)
LStrip(s) == IF s # <<>> /\ IsSpace(s[1]) THEN LStrip(Tail(s)) ELSE s
RECURSIVE RStrip(_)
RStrip(s) ==
    IF s # <<>> /\ IsSpace(s[Len(s)]) THEN RStrip(SubSeq(s, 1, Len(s) - 1)) ELSE s
Strip(s) == RStrip(LStrip(s))

\* str.lower() on the characters used
LowerChar(c) ==
    CASE c = "Q" -> "q"
      [] c = "U" -> "u"
      [] c = "I" -> "i"
      [] c = "T" -> "t"
      [] OTHER -> c
Lower(s) == [i \in 1..Len(s) |-> LowerChar(s[i])]

\* the characters as one string
RECURSIVE Str(_)
Str(s) == IF s = <<>> THEN "" ELSE s[1] \o Str(Tail(s))

\* ------------------------------------------------------------------ state
VARIABLES
    messages,         \* self.messages, the session history
    mode,             \* the entry point driving the session: chat, query, gpt
    loop,             \* position of the outer loop (chat_loop, query_loop, a caller)
    line,             \* chat_loop: the line input() returned last
    query,            \* the query argument of the running call
    provider,         \* the binding that is running: claude or gpt
    pc,               \* position inside process_query_*
    available_tools,  \* the adapted tool catalog
    response,         \* claude: the completion `response` refers to
    content_list,     \* claude: the response.content list the for loop iterates
    idx,              \* claude: index of `content`; gpt: index of `tool_call`
    message,          \* gpt: response.choices[0].message
    final_text,       \* the output accumulator
    ret,              \* what the last call returned
    exc,              \* the exception the last call raised
    nCalls,           \* process_query_* calls started in the session
    nCompletions,     \* completions the LLM has returned in the session
    nInvocations,     \* results the Tool Host has returned in the session
    nRaised,          \* process_query_* calls that have raised in the session
    attempts,         \* process_query_* calls started for the current query
    turnStart,        \* index in messages of the user message of the running call
    llmLog,           \* the completion requests of the running call, as the LLM saw them
    completions,      \* the completions received in the running call
    hostLog,          \* the invocations of the running call, as the Tool Host saw them
    hostRaised,       \* the failure the Tool Host raised in the running call
    printed,          \* what the outer loop printed last
    inflight,         \* the calls process_query_* has issued and is still awaiting
    \* ---- src/server/reddit.py: one invocation of a tool of the Tool Host
    tool,             \* the tool function that was invoked
    time_filter,      \* its time_filter argument
    limit,            \* its limit (search_posts) or post_limit argument
    comment_limit,    \* its limit (get_submission_comments) or comment_limit argument
    clock,            \* what time.time() returns
    forest,           \* the comment forest Reddit serves for a submission
    spc,              \* position inside the tool function
    found,            \* the submissions the search returned, as returned
    submissions,      \* search_posts: `submissions`
    threshold,        \* search_posts: `threshold`
    details_list,     \* search_posts: `details_list`; then `posts_details`
    pidx,             \* search_comments_in_posts: index of `details`
    submission,       \* the submission whose comments are read
    expanded,         \* replace_more calls of the running get_submission_comments
    comments_list,    \* get_submission_comments: `comments_list`
    count,            \* get_submission_comments: `count`
    comments,         \* get_submission_comments: `results`, then `comments`
    results,          \* search_comments_in_posts: `results`
    fetched,          \* the ids passed to reddit.submission(id=...)
    sret,             \* what the tool function returned
    sexc              \* the exception the tool function raised

\* the state of the client process
client ==
    << messages, mode, loop, line, query, provider, pc, available_tools, response,
       content_list, idx, message, final_text, ret, exc, nCalls, nCompletions,
       nInvocations, nRaised,
       attempts, turnStart, llmLog, completions, hostLog, hostRaised, printed,
       inflight >>

\* the state of the server process
server ==
    << tool, time_filter, limit, comment_limit, clock, forest, spc, found,
       submissions, threshold, details_list, pidx, submission, expanded,
       comments_list, count, comments, results, fetched, sret, sexc >>

vars == << client, server >>

\* the local variables of process_query_*
locals == << available_tools, response, content_list, idx, message, final_text >>

\* what the outer loops own
outer == << mode, loop, line, attempts, printed >>

None == "None"

\* chat_loop, query_loop, or a program calling process_query_gpt
Modes == {"chat", "query", "gpt"}

\* the queries a caller passes to query_loop or to process_query_gpt
Queries == {"hi"}

\* MCPClient.__init__: an empty history, and nothing called yet
ClientInit ==
    /\ messages = <<>>
    /\ loop = "ready"
    /\ line = <<>>
    /\ query = None
    /\ provider = None
    /\ pc = "idle"
    /\ available_tools = <<>>
    /\ response = <<>>
    /\ content_list = <<>>
    /\ idx = 0
    /\ message = None
    /\ final_text = <<>>
    /\ ret = None
    /\ exc = None
    /\ nCalls = 0
    /\ nCompletions = 0
    /\ nInvocations = 0
    /\ nRaised = 0
    /\ attempts = 0
    /\ turnStart = 0
    /\ llmLog = <<>>
    /\ completions = <<>>
    /\ hostLog = <<>>
    /\ hostRaised = None
    /\ printed = None
    /\ inflight = <<>>

\* ------------------------------------------------------ the environment
\* failures of the transport to the Tool Host, of the Host's tools, of the LLM API
TransportFailures == {"McpError"}
HostFailures == {"ToolError", "ConnectionError"}
ApiFailures == {"APIError"}

\* the result content the Tool Host returns for its k-th invocation of a call
HostResult(n, k) == "result" \o ToString(n) \o "." \o ToString(k)

\* the shapes of a Claude completion: its fragments' types, in order
RECURSIVE SeqsUpTo(_, _)
SeqsUpTo(S, n) ==
    IF n = 0 THEN {<<>>}
    ELSE LET shorter == SeqsUpTo(S, n - 1)
         IN  shorter \cup {Append(s, x) : s \in shorter, x \in S}

ClaudeShapes == SeqsUpTo({"text", "tool_use"}, MaxFrags)

\* the n-th completion of the session, of the given shape, as the Anthropic SDK
\* delivers it: text blocks carry text, tool_use blocks carry id, name and input
ClaudeCompletion(shape, n) ==
    [j \in 1..Len(shape) |->
        IF shape[j] = "text"
        THEN [type |-> "text", text |-> "text" \o ToString(n) \o "." \o ToString(j)]
        ELSE [type |-> "tool_use",
              id |-> "call" \o ToString(n) \o "." \o ToString(j),
              name |-> ToolNames[1],
              input |-> ArgsDict]]

\* hasattr(content, 'text') and content.text
HasText(content) == "text" \in DOMAIN content /\ content.text # ""

\* whether response.content[0].text can be read
FirstHasText(c) == IF c = <<>> THEN FALSE ELSE "text" \in DOMAIN c[1]

\* the calls' bookkeeping, which a step inside a call leaves alone
call == << query, provider, nCalls, turnStart >>

\* the environment's count of what it has returned
counts == << nCompletions, nInvocations >>

\* the logs the environment keeps of the running call
logs == << llmLog, completions, hostLog, hostRaised >>

\* an exception leaves process_query_*
Raise(e) ==
    /\ pc' = "raised"
    /\ exc' = e
    /\ ret' = None
    /\ nRaised' = nRaised + 1
    /\ inflight' = <<>>

\* ------------------------------------------------- process_query_claude
\* the calls process_query_claude has issued and not yet seen return when it is
\* suspended at position p with `content` the i-th fragment of c: every call is
\* awaited where it is made
ClaudeAwaits(p, c, i) ==
    IF p = "list_tools" THEN << [op |-> "list_tools"] >>
    ELSE IF p \in {"create", "next"} THEN << [op |-> "create"] >>
    ELSE IF p = "for" /\ i \in 1..Len(c) /\ c[i].type = "tool_use"
         THEN << [op |-> "call_tool", request |-> c[i].id] >>
    ELSE << >>

\* a history that is restarted on every call instead of extended
WithUserMessage_Fresh(history, q) == << [role |-> "user", content |-> q] >>

\* self.messages.append({"role": "user", "content": query})
WithUserMessage(history, q) == Append(history, [role |-> "user", content |-> q])

\* the call of process_query_claude(q) up to its first await: the user message
\* is appended, then list_tools is awaited
ClaudeEnter(q) ==
    /\ messages' = WithUserMessage(messages, q)
    /\ query' = q
    /\ provider' = "claude"
    /\ pc' = "list_tools"
    /\ nCalls' = nCalls + 1
    /\ turnStart' = Len(messages) + 1
    /\ available_tools' = <<>>
    /\ response' = <<>>
    /\ content_list' = <<>>
    /\ idx' = 0
    /\ message' = None
    /\ final_text' = <<>>
    /\ ret' = None
    /\ exc' = None
    /\ llmLog' = <<>>
    /\ completions' = <<>>
    /\ hostLog' = <<>>
    /\ hostRaised' = None
    /\ inflight' = << [op |-> "list_tools"] >>
    /\ UNCHANGED << counts, nRaised >>

\* session.list_tools() returns and the catalog is adapted
ClaudeListTools ==
    /\ provider = "claude"
    /\ pc = "list_tools"
    /\ available_tools' = AdaptClaude(ListedTools)
    /\ pc' = "create"
    /\ UNCHANGED << messages, outer, call, logs, response, content_list, idx, message,
                    final_text, ret, exc, counts, nRaised >>
    /\ inflight' = ClaudeAwaits(pc', content_list', idx')
    /\ UNCHANGED server

\* session.list_tools() raises
ClaudeListToolsRaise ==
    /\ provider = "claude"
    /\ pc = "list_tools"
    /\ \E e \in TransportFailures : Raise(e)
    /\ UNCHANGED << messages, outer, call, logs, locals, counts >>
    /\ UNCHANGED server

\* the initial anthropic.messages.create(system, messages, tools) returns
ClaudeCreate ==
    /\ provider = "claude"
    /\ pc = "create"
    /\ nCompletions + nInvocations < MaxResponses
    /\ \E shape \in ClaudeShapes :
         LET c == ClaudeCompletion(shape, nCompletions + 1)
         IN  /\ response' = c
             /\ content_list' = c
             /\ completions' = Append(completions, c)
    /\ llmLog' = Append(llmLog, [system |-> system_prompt,
                                 messages |-> messages,
                                 tools |-> available_tools])
    /\ nCompletions' = nCompletions + 1
    /\ UNCHANGED nInvocations
    /\ final_text' = <<>>
    /\ idx' = 1
    /\ pc' = "for"
    /\ UNCHANGED << messages, outer, call, hostLog, hostRaised, available_tools,
                    message, ret, exc, nRaised >>
    /\ inflight' = ClaudeAwaits(pc', content_list', idx')
    /\ UNCHANGED server

\* the initial anthropic.messages.create raises
ClaudeCreateRaise ==
    /\ provider = "claude"
    /\ pc = "create"
    /\ llmLog' = Append(llmLog, [system |-> system_prompt,
                                 messages |-> messages,
                                 tools |-> available_tools])
    /\ \E e \in ApiFailures : Raise(e)
    /\ UNCHANGED << messages, outer, call, completions, hostLog, hostRaised, locals,
                    counts >>
    /\ UNCHANGED server

\* for content in response.content, content.type == 'text'
ClaudeForText ==
    /\ provider = "claude"
    /\ pc = "for"
    /\ idx <= Len(content_list)
    /\ content_list[idx].type = "text"
    /\ final_text' = Append(final_text, content_list[idx].text)
    /\ idx' = idx + 1
    /\ UNCHANGED << messages, outer, call, logs, pc, available_tools, response,
                    content_list, message, ret, exc, counts, nRaised >>
    /\ inflight' = ClaudeAwaits(pc', content_list', idx')
    /\ UNCHANGED server

\* the messages the tool_use branch appends once call_tool has returned `result`
ClaudeToolMessages(content, result) ==
    (IF HasText(content)
     THEN << [role |-> "assistant", content |-> content.text] >>
     ELSE << >>)
    \o << [role |-> "user", content |-> result] >>

\* content.type == 'tool_use': session.call_tool returns
ClaudeCallTool ==
    /\ provider = "claude"
    /\ pc = "for"
    /\ idx <= Len(content_list)
    /\ content_list[idx].type = "tool_use"
    /\ nCompletions + nInvocations < MaxResponses
    /\ LET content == content_list[idx]
           tool_name == content.name
           tool_args == content.input
           result == HostResult(nCalls, Len(hostLog) + 1)
       IN  /\ hostLog' = Append(hostLog, [name |-> tool_name, args |-> tool_args,
                                          request |-> content.id, result |-> result])
           /\ final_text' = Append(final_text, Trace(tool_name, tool_args))
           /\ messages' = messages \o ClaudeToolMessages(content, result)
    /\ nInvocations' = nInvocations + 1
    /\ pc' = "next"
    /\ UNCHANGED << outer, call, llmLog, completions, hostRaised, available_tools,
                    response, content_list, idx, message, ret, exc, nCompletions, nRaised >>
    /\ inflight' = ClaudeAwaits(pc', content_list', idx')
    /\ UNCHANGED server

\* content.type == 'tool_use': session.call_tool raises
ClaudeCallToolRaise ==
    /\ provider = "claude"
    /\ pc = "for"
    /\ idx <= Len(content_list)
    /\ content_list[idx].type = "tool_use"
    /\ \E e \in HostFailures :
         /\ hostLog' = Append(hostLog, [name |-> content_list[idx].name,
                                        args |-> content_list[idx].input,
                                        request |-> content_list[idx].id,
                                        result |-> e])
         /\ hostRaised' = e
         /\ Raise(e)
    /\ UNCHANGED << messages, outer, call, llmLog, completions, locals, counts >>
    /\ UNCHANGED server

\* a follow-up whose fragments the for loop goes on to iterate
ClaudeNext_Iterated ==
    /\ provider = "claude"
    /\ pc = "next"
    /\ nCompletions + nInvocations < MaxResponses
    /\ \E shape \in ClaudeShapes :
         LET c == ClaudeCompletion(shape, nCompletions + 1)
         IN  /\ FirstHasText(c)
             /\ response' = c
             /\ completions' = Append(completions, c)
             /\ final_text' = Append(final_text, c[1].text)
    /\ llmLog' = Append(llmLog, [messages |-> messages])
    /\ nCompletions' = nCompletions + 1
    /\ UNCHANGED nInvocations
    /\ idx' = 1
    /\ content_list' = response'
    /\ pc' = "for"
    /\ UNCHANGED << messages, outer, call, hostLog, hostRaised, available_tools,
                    message, ret, exc, nRaised >>
    /\ inflight' = ClaudeAwaits(pc', content_list', idx')
    /\ UNCHANGED server

\* the follow-up anthropic.messages.create(messages) returns a completion whose
\* first fragment has text, which is appended to final_text
ClaudeNext ==
    /\ provider = "claude"
    /\ pc = "next"
    /\ nCompletions + nInvocations < MaxResponses
    /\ \E shape \in ClaudeShapes :
         LET c == ClaudeCompletion(shape, nCompletions + 1)
         IN  /\ FirstHasText(c)
             /\ response' = c
             /\ completions' = Append(completions, c)
             /\ final_text' = Append(final_text, c[1].text)
    /\ llmLog' = Append(llmLog, [messages |-> messages])
    /\ nCompletions' = nCompletions + 1
    /\ UNCHANGED nInvocations
    /\ idx' = idx + 1
    /\ pc' = "for"
    /\ UNCHANGED << messages, outer, call, hostLog, hostRaised, available_tools,
                    content_list, message, ret, exc, nRaised >>
    /\ inflight' = ClaudeAwaits(pc', content_list', idx')
    /\ UNCHANGED server

\* the follow-up completion is empty (response.content[0] raises IndexError) or
\* starts with a tool_use block (.text raises AttributeError)
ClaudeNextNoText ==
    /\ provider = "claude"
    /\ pc = "next"
    /\ nCompletions + nInvocations < MaxResponses
    /\ \E shape \in ClaudeShapes :
         LET c == ClaudeCompletion(shape, nCompletions + 1)
         IN  /\ ~FirstHasText(c)
             /\ response' = c
             /\ completions' = Append(completions, c)
             /\ Raise(IF c = <<>> THEN "IndexError" ELSE "AttributeError")
    /\ llmLog' = Append(llmLog, [messages |-> messages])
    /\ nCompletions' = nCompletions + 1
    /\ UNCHANGED nInvocations
    /\ UNCHANGED << messages, outer, call, hostLog, hostRaised, available_tools,
                    content_list, idx, message, final_text >>
    /\ UNCHANGED server

\* the follow-up anthropic.messages.create raises
ClaudeNextRaise ==
    /\ provider = "claude"
    /\ pc = "next"
    /\ llmLog' = Append(llmLog, [messages |-> messages])
    /\ \E e \in ApiFailures : Raise(e)
    /\ UNCHANGED << messages, outer, call, completions, hostLog, hostRaised, locals,
                    counts >>
    /\ UNCHANGED server

\* the for loop is exhausted: return "\n".join(final_text)
ClaudeReturn ==
    /\ provider = "claude"
    /\ pc = "for"
    /\ idx > Len(content_list)
    /\ ret' = Join(final_text)
    /\ pc' = "returned"
    /\ UNCHANGED << messages, outer, call, logs, locals, exc, counts, nRaised >>
    /\ inflight' = ClaudeAwaits(pc', content_list', idx')
    /\ UNCHANGED server

\* ---------------------------------------------------- process_query_gpt
\* the forms tool_call.function.arguments takes
GptArgs == {ArgsEncoded, ArgsMalformed}

\* the arguments of a message's tool calls, in order; the for loop never reaches a
\* tool call behind one with malformed arguments, so such a call comes last
GptArgSeqs ==
    {s \in SeqsUpTo(GptArgs, MaxFrags) : \A i \in 1..(Len(s) - 1) : s[i] = ArgsEncoded}

\* the shapes of a GPT message: whether it has content, and its tool calls' arguments
GptShapes == BOOLEAN \X GptArgSeqs

\* the n-th completion of the session: response.choices[0].message
GptMessage(shape, n) ==
    [role |-> "assistant",
     content |-> IF shape[1] THEN "text" \o ToString(n) ELSE "",
     tool_calls |->
        [j \in 1..Len(shape[2]) |->
            [id |-> "call" \o ToString(n) \o "." \o ToString(j),
             function |-> [name |-> ToolNames[1], arguments |-> shape[2][j]]]]]

\* a for loop that issues the calls of all remaining tool calls together and
\* awaits them as a group
GptAwaits_Gather(p, m, i) ==
    IF p = "list_tools" THEN << [op |-> "list_tools"] >>
    ELSE IF p \in {"create", "next"} THEN << [op |-> "create"] >>
    ELSE IF p = "for"
         THEN [j \in 1..(Len(m.tool_calls) - i + 1) |->
                  [op |-> "call_tool", request |-> m.tool_calls[i + j - 1].id]]
    ELSE << >>

\* the calls process_query_gpt has issued and not yet seen return when it is
\* suspended at position p with `tool_call` the i-th tool call of m: every call
\* is awaited where it is made, and json.loads runs before call_tool is issued
GptAwaits(p, m, i) ==
    IF p = "list_tools" THEN << [op |-> "list_tools"] >>
    ELSE IF p \in {"create", "next"} THEN << [op |-> "create"] >>
    ELSE IF p = "for" /\ JsonOk(m.tool_calls[i].function.arguments.val)
         THEN << [op |-> "call_tool", request |-> m.tool_calls[i].id] >>
    ELSE << >>

\* the call of process_query_gpt(q) up to its first await: the system message is
\* appended to an empty history, then the user message, then list_tools is awaited
GptEnter(q) ==
    /\ messages' =
         WithUserMessage(IF messages = <<>>
                         THEN << [role |-> "system", content |-> system_prompt] >>
                         ELSE messages,
                         q)
    /\ query' = q
    /\ provider' = "gpt"
    /\ pc' = "list_tools"
    /\ nCalls' = nCalls + 1
    /\ turnStart' = IF messages = <<>> THEN 2 ELSE Len(messages) + 1
    /\ available_tools' = <<>>
    /\ response' = <<>>
    /\ content_list' = <<>>
    /\ idx' = 0
    /\ message' = None
    /\ final_text' = <<>>
    /\ ret' = None
    /\ exc' = None
    /\ llmLog' = <<>>
    /\ completions' = <<>>
    /\ hostLog' = <<>>
    /\ hostRaised' = None
    /\ inflight' = << [op |-> "list_tools"] >>
    /\ UNCHANGED << counts, nRaised >>

\* session.list_tools() returns and the catalog is adapted
GptListTools ==
    /\ provider = "gpt"
    /\ pc = "list_tools"
    /\ available_tools' = AdaptGpt(ListedTools)
    /\ pc' = "create"
    /\ UNCHANGED << messages, outer, call, logs, response, content_list, idx, message,
                    final_text, ret, exc, counts, nRaised >>
    /\ inflight' = GptAwaits(pc', message', idx')
    /\ UNCHANGED server

\* session.list_tools() raises
GptListToolsRaise ==
    /\ provider = "gpt"
    /\ pc = "list_tools"
    /\ \E e \in TransportFailures : Raise(e)
    /\ UNCHANGED << messages, outer, call, logs, locals, counts >>
    /\ UNCHANGED server

\* client.chat.completions.create(messages, tools), the initial one (pc = create)
\* or the one at the end of the while body (pc = next), returns a message
GptCreate ==
    /\ provider = "gpt"
    /\ pc \in {"create", "next"}
    /\ nCompletions + nInvocations < MaxResponses
    /\ \E shape \in GptShapes :
         LET m == GptMessage(shape, nCompletions + 1)
         IN  /\ message' = m
             /\ completions' = Append(completions, m)
    /\ llmLog' = Append(llmLog, [messages |-> messages, tools |-> available_tools])
    /\ nCompletions' = nCompletions + 1
    /\ UNCHANGED nInvocations
    /\ final_text' = IF pc = "create" THEN <<>> ELSE final_text
    /\ pc' = "while"
    /\ UNCHANGED << messages, outer, call, hostLog, hostRaised, available_tools,
                    response, content_list, idx, ret, exc, nRaised >>
    /\ inflight' = GptAwaits(pc', message', idx')
    /\ UNCHANGED server

\* client.chat.completions.create raises
GptCreateRaise ==
    /\ provider = "gpt"
    /\ pc \in {"create", "next"}
    /\ llmLog' = Append(llmLog, [messages |-> messages, tools |-> available_tools])
    /\ \E e \in ApiFailures : Raise(e)
    /\ UNCHANGED << messages, outer, call, completions, hostLog, hostRaised, locals,
                    counts >>
    /\ UNCHANGED server

\* a message whose content is left out of the output
GptWithContent_Dropped(m, text) == text

\* if message.content: final_text.append(message.content)
GptWithContent(m, text) == IF m.content # "" THEN Append(text, m.content) ELSE text

\* the top of the while body with tool calls: the for loop over them starts
GptWhileToolCalls ==
    /\ provider = "gpt"
    /\ pc = "while"
    /\ message.tool_calls # <<>>
    /\ final_text' = GptWithContent(message, final_text)
    /\ idx' = 1
    /\ pc' = "for"
    /\ UNCHANGED << messages, outer, call, logs, available_tools, response,
                    content_list, message, ret, exc, counts, nRaised >>
    /\ inflight' = GptAwaits(pc', message', idx')
    /\ UNCHANGED server

\* the top of the while body without tool calls: break, return "\n".join(final_text)
GptBreak ==
    /\ provider = "gpt"
    /\ pc = "while"
    /\ message.tool_calls = <<>>
    /\ final_text' = GptWithContent(message, final_text)
    /\ ret' = Join(final_text')
    /\ pc' = "returned"
    /\ UNCHANGED << messages, outer, call, logs, available_tools, response,
                    content_list, idx, message, exc, counts, nRaised >>
    /\ inflight' = GptAwaits(pc', message', idx')
    /\ UNCHANGED server

\* tool_args after `if isinstance(tool_args, str): tool_args = json.loads(tool_args)`
GptDecode(tool_args) == IF IsStr(tool_args) THEN JsonLoads(tool_args.val) ELSE tool_args.val

\* the messages appended once call_tool has returned `result` for tool_call
GptToolMessages(m, tool_call, result) ==
    << m, [role |-> "tool", tool_call_id |-> tool_call.id, content |-> result] >>

\* json.loads(tool_args) raises on malformed text
GptDecodeRaise ==
    /\ provider = "gpt"
    /\ pc = "for"
    /\ LET tool_args == message.tool_calls[idx].function.arguments
       IN  IsStr(tool_args) /\ ~JsonOk(tool_args.val)
    /\ Raise("JSONDecodeError")
    /\ UNCHANGED << messages, outer, call, logs, locals, counts >>
    /\ UNCHANGED server

\* one iteration of `for tool_call in message.tool_calls`: session.call_tool returns
GptCallTool ==
    /\ provider = "gpt"
    /\ pc = "for"
    /\ nCompletions + nInvocations < MaxResponses
    /\ LET tool_call == message.tool_calls[idx]
           tool_name == tool_call.function.name
           raw == tool_call.function.arguments
           tool_args == GptDecode(raw)
           result == HostResult(nCalls, Len(hostLog) + 1)
       IN  /\ IsStr(raw) => JsonOk(raw.val)
           /\ hostLog' = Append(hostLog, [name |-> tool_name, args |-> tool_args,
                                          request |-> tool_call.id, result |-> result])
           /\ final_text' = Append(final_text, Trace(tool_name, tool_args))
           /\ messages' = messages \o GptToolMessages(message, tool_call, result)
    /\ idx' = idx + 1
    /\ nInvocations' = nInvocations + 1
    /\ pc' = IF idx < Len(message.tool_calls) THEN "for" ELSE "next"
    /\ UNCHANGED << outer, call, llmLog, completions, hostRaised, available_tools,
                    response, content_list, message, ret, exc, nCompletions, nRaised >>
    /\ inflight' = GptAwaits(pc', message', idx')
    /\ UNCHANGED server

\* a tool failure that is caught and reported to the LLM instead of raised
GptCallToolRaise_Swallowed ==
    /\ provider = "gpt"
    /\ pc = "for"
    /\ LET tool_call == message.tool_calls[idx]
           raw == tool_call.function.arguments
       IN  /\ IsStr(raw) => JsonOk(raw.val)
           /\ \E e \in HostFailures :
                /\ hostLog' = Append(hostLog, [name |-> tool_call.function.name,
                                               args |-> GptDecode(raw),
                                               request |-> tool_call.id,
                                               result |-> e])
                /\ hostRaised' = e
                /\ messages' = messages \o GptToolMessages(message, tool_call, e)
    /\ idx' = idx + 1
    /\ pc' = IF idx < Len(message.tool_calls) THEN "for" ELSE "next"
    /\ UNCHANGED << outer, call, llmLog, completions, available_tools, response,
                    content_list, message, final_text, ret, exc, counts, nRaised >>
    /\ inflight' = GptAwaits(pc', message', idx')
    /\ UNCHANGED server

\* one iteration of `for tool_call in message.tool_calls`: session.call_tool raises
GptCallToolRaise ==
    /\ provider = "gpt"
    /\ pc = "for"
    /\ LET tool_call == message.tool_calls[idx]
           raw == tool_call.function.arguments
       IN  /\ IsStr(raw) => JsonOk(raw.val)
           /\ \E e \in HostFailures :
                /\ hostLog' = Append(hostLog, [name |-> tool_call.function.name,
                                               args |-> GptDecode(raw),
                                               request |-> tool_call.id,
                                               result |-> e])
                /\ hostRaised' = e
                /\ Raise(e)
    /\ UNCHANGED << messages, outer, call, llmLog, completions, locals, counts >>
    /\ UNCHANGED server

\* ------------------------------------------------------------ chat_loop
\* query = input().strip(); a line that is quit after lower() breaks the loop,
\* any other line is passed to process_query_claude
ChatInput ==
    /\ mode = "chat"
    /\ loop = "ready"
    /\ \E l \in Lines :
         /\ line' = l
         /\ IF Str(Lower(Strip(l))) = "quit"
            THEN /\ loop' = "exited"
                 /\ UNCHANGED << messages, query, provider, pc, nCalls, turnStart, locals,
                                 ret, exc, logs, counts, nRaised, attempts,
                                 inflight >>
            ELSE /\ nCalls < MaxCalls
                 /\ nCompletions + nInvocations < MaxResponses
                 /\ ClaudeEnter(Str(Strip(l)))
                 /\ attempts' = 1
                 /\ loop' = "await"
    /\ UNCHANGED << mode, printed >>
    /\ UNCHANGED server

\* input() raises (end of input): the except clause prints it, the loop goes on
ChatInputRaise ==
    /\ mode = "chat"
    /\ loop = "ready"
    /\ printed' = "\nError: " \o "EOFError"
    /\ UNCHANGED << messages, mode, loop, line, attempts, query, provider, pc, nCalls,
                    turnStart, locals, ret, exc, logs, counts, nRaised >>
    /\ UNCHANGED inflight
    /\ UNCHANGED server

\* process_query_claude returned: print("\n" + response), next iteration
ChatResponse ==
    /\ mode = "chat"
    /\ loop = "await"
    /\ pc = "returned"
    /\ printed' = "\n" \o ret
    /\ loop' = "ready"
    /\ pc' = "idle"
    /\ UNCHANGED << messages, mode, line, attempts, call, locals, ret, exc, logs,
                    counts, nRaised >>
    /\ UNCHANGED inflight
    /\ UNCHANGED server

\* an except clause that leaves the loop
ChatExcept_Break ==
    /\ mode = "chat"
    /\ loop = "await"
    /\ pc = "raised"
    /\ printed' = "\nError: " \o exc
    /\ loop' = "exited"
    /\ pc' = "idle"
    /\ UNCHANGED << messages, mode, line, attempts, call, locals, ret, exc, logs,
                    counts, nRaised >>
    /\ UNCHANGED inflight
    /\ UNCHANGED server

\* process_query_claude raised: except Exception prints it, next iteration
ChatExcept ==
    /\ mode = "chat"
    /\ loop = "await"
    /\ pc = "raised"
    /\ printed' = "\nError: " \o exc
    /\ loop' = "ready"
    /\ pc' = "idle"
    /\ UNCHANGED << messages, mode, line, attempts, call, locals, ret, exc, logs,
                    counts, nRaised >>
    /\ UNCHANGED inflight
    /\ UNCHANGED server

\* ----------------------------------------------------------- query_loop
\* the top of `while True`: process_query_claude(query) is called, with the
\* argument of query_loop on the first iteration and on every later one
QueryLoopCall ==
    /\ mode = "query"
    /\ loop \in {"ready", "again"}
    /\ nCalls < MaxCalls
    /\ nCompletions + nInvocations < MaxResponses
    /\ \E q \in Queries :
         /\ loop = "again" => q = query
         /\ ClaudeEnter(q)
    /\ attempts' = attempts + 1
    /\ loop' = "await"
    /\ UNCHANGED << mode, line, printed >>
    /\ UNCHANGED server

\* process_query_claude returned: print and return response
QueryLoopReturn ==
    /\ mode = "query"
    /\ loop = "await"
    /\ pc = "returned"
    /\ printed' = "\n" \o ret
    /\ loop' = "returned"
    /\ pc' = "idle"
    /\ UNCHANGED << messages, mode, line, attempts, call, locals, ret, exc, logs,
                    counts, nRaised >>
    /\ UNCHANGED inflight
    /\ UNCHANGED server

\* process_query_claude raised: except Exception prints it, and the while loop
\* starts its next iteration
QueryLoopExcept ==
    /\ mode = "query"
    /\ loop = "await"
    /\ pc = "raised"
    /\ printed' = "\nError: " \o exc
    /\ loop' = "again"
    /\ pc' = "idle"
    /\ UNCHANGED << messages, mode, line, attempts, call, locals, ret, exc, logs,
                    counts, nRaised >>
    /\ UNCHANGED inflight
    /\ UNCHANGED server

\* ------------------------------------------ a caller of process_query_gpt
\* a program that uses MCPClient calls process_query_gpt with a new query
GptCall ==
    /\ mode = "gpt"
    /\ loop = "ready"
    /\ nCalls < MaxCalls
    /\ nCompletions + nInvocations < MaxResponses
    /\ \E q \in Queries : GptEnter(q)
    /\ attempts' = 1
    /\ loop' = "await"
    /\ UNCHANGED << mode, line, printed >>
    /\ UNCHANGED server

\* the caller receives the return value or the exception
GptDone ==
    /\ mode = "gpt"
    /\ loop = "await"
    /\ pc \in {"returned", "raised"}
    /\ loop' = "ready"
    /\ pc' = "idle"
    /\ UNCHANGED << messages, mode, line, attempts, printed, call, locals, ret, exc,
                    logs, counts, nRaised >>
    /\ UNCHANGED inflight
    /\ UNCHANGED server

\* ================================================= src/server/reddit.py
\* the values of time_filter: the five windows, "all", and one that is neither
TimeFilters == {"hour", "day", "week", "month", "year", "all", "decade"}

\* the readings of time.time() during an invocation
Clock == {40000000, 40000001}

\* the failures of the content API
RedditFailures == {"ValueError", "RequestException"}

\* a threshold that takes a month for 31 days
compute_threshold_Month31(tf, now) ==
    IF tf = "hour" THEN << now - 3600 >>
    ELSE IF tf = "day" THEN << now - 86400 >>
    ELSE IF tf = "week" THEN << now - (7 * 86400) >>
    ELSE IF tf = "month" THEN << now - (31 * 86400) >>
    ELSE IF tf = "year" THEN << now - (365 * 86400) >>
    ELSE << >>

\* a threshold that falls back to one year for any other filter
compute_threshold_Fallback(tf, now) ==
    IF tf = "hour" THEN << now - 3600 >>
    ELSE IF tf = "day" THEN << now - 86400 >>
    ELSE IF tf = "week" THEN << now - (7 * 86400) >>
    ELSE IF tf = "month" THEN << now - (30 * 86400) >>
    ELSE << now - (365 * 86400) >>

\* compute_threshold(time_filter) when time.time() returns now; the result is a
\* sequence that holds the timestamp, or is empty for None
compute_threshold(tf, now) ==
    IF tf = "hour" THEN << now - 3600 >>
    ELSE IF tf = "day" THEN << now - 86400 >>
    ELSE IF tf = "week" THEN << now - (7 * 86400) >>
    ELSE IF tf = "month" THEN << now - (30 * 86400) >>
    ELSE IF tf = "year" THEN << now - (365 * 86400) >>
    ELSE << >>

\* the ages, in seconds at the time of the call, of the submissions a search
\* with filter tf is served: one second inside the filter's window, exactly at
\* its start, and one second before it; without a window, new, old and very old
Ages(tf) ==
    LET t == compute_threshold(tf, 0)
    IN  IF t # << >> THEN {-t[1] - 1, -t[1], -t[1] + 1}
        ELSE {0, 3600 + 1, (365 * 86400) + 1}

\* the forests Reddit serves: comments and "load more" placeholders, in the
\* order comments.list() flattens them
Forests == SeqsUpTo({"comment", "more"}, MaxComments)

\* the comment forest of submission id, of the given shape
CommentForest(id, shape) ==
    [j \in 1..Len(shape) |->
        IF shape[j] = "comment"
        THEN [kind |-> "comment",
              id |-> "c" \o ToString(j) \o "." \o id,
              body |-> "body" \o ToString(j) \o "." \o id,
              score |-> j,
              created_utc |-> j]
        ELSE [kind |-> "more"]]

\* the j-th submission of a search result, created at time t
Submission(j, t) ==
    [id |-> "p" \o ToString(j),
     title |-> "title" \o ToString(j),
     selftext |-> "selftext" \o ToString(j),
     url |-> "url" \o ToString(j),
     score |-> j,
     num_comments |-> j,
     created_utc |-> t]

\* the lists subreddit.search(query, sort, time_filter, limit) can return: at
\* most limit submissions, of any ages and in any order of age
SearchResults(tf, lim, now) ==
    LET n == IF lim < MaxPosts THEN lim ELSE MaxPosts
    IN  {[j \in 1..Len(ages) |-> Submission(j, now - ages[j])] :
            ages \in SeqsUpTo(Ages(tf), n)}

\* get_post_details(submission)
get_post_details(sub) ==
    [id |-> sub.id,
     title |-> sub.title,
     selftext |-> sub.selftext,
     url |-> sub.url,
     score |-> sub.score,
     num_comments |-> sub.num_comments,
     created_utc |-> sub.created_utc]

\* no tool function has been invoked
ServerIdle ==
    /\ tool = None
    /\ time_filter = None
    /\ limit = 0
    /\ comment_limit = 0
    /\ clock = 0
    /\ forest = <<>>
    /\ spc = "idle"
    /\ found = <<>>
    /\ submissions = <<>>
    /\ threshold = <<>>
    /\ details_list = <<>>
    /\ pidx = 0
    /\ submission = [id |-> None, comments |-> <<>>]
    /\ expanded = 0
    /\ comments_list = <<>>
    /\ count = 0
    /\ comments = <<>>
    /\ results = <<>>
    /\ fetched = <<>>
    /\ sret = <<>>
    /\ sexc = None

\* search_posts(query, time_filter=tf, limit=n) is called and awaits the search
InvokeSearchPosts ==
    /\ spc = "idle"
    /\ tool' = "search_posts"
    /\ time_filter' \in TimeFilters
    /\ limit' \in 0..MaxPosts
    /\ clock' \in Clock
    /\ spc' = "search"
    /\ UNCHANGED << comment_limit, forest, found, submissions, threshold,
                    details_list, pidx, submission, expanded, comments_list, count,
                    comments, results, fetched, sret, sexc >>
    /\ UNCHANGED client

\* get_submission_comments(submission, limit=n) is called and awaits replace_more
InvokeGetSubmissionComments ==
    /\ spc = "idle"
    /\ tool' = "get_submission_comments"
    /\ comment_limit' \in 0..MaxComments
    /\ forest' \in Forests
    /\ submission' = [id |-> "p1", comments |-> CommentForest("p1", forest')]
    /\ expanded' = 0
    /\ spc' = "replace_more"
    /\ UNCHANGED << time_filter, limit, clock, found, submissions, threshold,
                    details_list, pidx, comments_list, count, comments, results,
                    fetched, sret, sexc >>
    /\ UNCHANGED client

\* search_comments_in_posts(query, post_limit, comment_limit, time_filter) is
\* called and calls search_posts, which awaits the search
InvokeSearchCommentsInPosts ==
    /\ spc = "idle"
    /\ tool' = "search_comments_in_posts"
    /\ time_filter' \in TimeFilters
    /\ limit' \in 0..MaxPosts
    /\ comment_limit' \in 0..MaxComments
    /\ clock' \in Clock
    /\ forest' \in Forests
    /\ spc' = "search"
    /\ UNCHANGED << found, submissions, threshold, details_list, pidx, submission,
                    expanded, comments_list, count, comments, results, fetched,
                    sret, sexc >>
    /\ UNCHANGED client

\* list(subreddit_instance.search(...)) returns from its thread
Search ==
    /\ spc = "search"
    /\ \E list \in SearchResults(time_filter, limit, clock) :
         /\ found' = list
         /\ submissions' = list
    /\ spc' = "filter"
    /\ UNCHANGED << tool, time_filter, limit, comment_limit, clock, forest, threshold,
                    details_list, pidx, submission, expanded, comments_list, count,
                    comments, results, fetched, sret, sexc >>
    /\ UNCHANGED client

\* the search raises: the exception leaves the tool function
SearchRaise ==
    /\ spc = "search"
    /\ sexc' \in RedditFailures
    /\ spc' = "raised"
    /\ UNCHANGED << tool, time_filter, limit, comment_limit, clock, forest, found,
                    submissions, threshold, details_list, pidx, submission, expanded,
                    comments_list, count, comments, results, fetched, sret >>
    /\ UNCHANGED client

\* [submission for submission in submissions if submission.created_utc >= threshold]
Kept(subs, thr) ==
    IF thr # << >>
    THEN SelectSeq(subs, LAMBDA sub : sub.created_utc >= thr[1])
    ELSE subs

\* the rest of search_posts: the threshold, the filter, one details record per
\* submission kept; search_posts returns the list, to the Tool Host's caller or
\* to search_comments_in_posts, which starts its loop over it
SearchPostsReturn ==
    /\ spc = "filter"
    /\ threshold' = compute_threshold(time_filter, clock)
    /\ submissions' = Kept(submissions, threshold')
    /\ details_list' = [j \in 1..Len(submissions') |-> get_post_details(submissions'[j])]
    /\ IF tool = "search_posts"
       THEN /\ sret' = details_list'
            /\ spc' = "returned"
            /\ UNCHANGED << results, pidx >>
       ELSE /\ results' = <<>>
            /\ pidx' = 1
            /\ spc' = "posts"
            /\ UNCHANGED sret
    /\ UNCHANGED << tool, time_filter, limit, comment_limit, clock, forest, found,
                    submission, expanded, comments_list, count, comments, fetched,
                    sexc >>
    /\ UNCHANGED client

\* a loop that fetches the first post found for every record
FetchSubmission_First ==
    /\ spc = "posts"
    /\ pidx <= Len(details_list)
    /\ LET details == details_list[1]
       IN  /\ submission' = [id |-> details.id,
                             comments |-> CommentForest(details.id, forest)]
           /\ fetched' = Append(fetched, details.id)
    /\ expanded' = 0
    /\ spc' = "replace_more"
    /\ UNCHANGED << tool, time_filter, limit, comment_limit, clock, forest, found,
                    submissions, threshold, details_list, pidx, comments_list, count,
                    comments, results, sret, sexc >>
    /\ UNCHANGED client

\* for details in posts_details: reddit.submission(id=details['id']) returns from
\* its thread, and get_submission_comments is called and awaits replace_more
FetchSubmission ==
    /\ spc = "posts"
    /\ pidx <= Len(details_list)
    /\ LET details == details_list[pidx]
       IN  /\ submission' = [id |-> details.id,
                             comments |-> CommentForest(details.id, forest)]
           /\ fetched' = Append(fetched, details.id)
    /\ expanded' = 0
    /\ spc' = "replace_more"
    /\ UNCHANGED << tool, time_filter, limit, comment_limit, clock, forest, found,
                    submissions, threshold, details_list, pidx, comments_list, count,
                    comments, results, sret, sexc >>
    /\ UNCHANGED client

\* submission.comments.replace_more(limit=0) returns from its thread: every
\* placeholder is removed from the forest
ReplaceMore ==
    /\ spc = "replace_more"
    /\ submission' = [submission EXCEPT
                        !.comments = SelectSeq(@, LAMBDA c : c.kind = "comment")]
    /\ expanded' = expanded + 1
    /\ spc' = "list"
    /\ UNCHANGED << tool, time_filter, limit, comment_limit, clock, forest, found,
                    submissions, threshold, details_list, pidx, comments_list, count,
                    comments, results, fetched, sret, sexc >>
    /\ UNCHANGED client

\* replace_more raises: the exception leaves the tool function
ReplaceMoreRaise ==
    /\ spc = "replace_more"
    /\ sexc' \in RedditFailures
    /\ spc' = "raised"
    /\ UNCHANGED << tool, time_filter, limit, comment_limit, clock, forest, found,
                    submissions, threshold, details_list, pidx, submission, expanded,
                    comments_list, count, comments, results, fetched, sret >>
    /\ UNCHANGED client

\* submission.comments.list() returns from its thread; results = [], count = 0
CommentsList ==
    /\ spc = "list"
    /\ comments_list' = submission.comments
    /\ comments' = <<>>
    /\ count' = 0
    /\ spc' = "for"
    /\ UNCHANGED << tool, time_filter, limit, comment_limit, clock, forest, found,
                    submissions, threshold, details_list, pidx, submission, expanded,
                    results, fetched, sret, sexc >>
    /\ UNCHANGED client

\* the record results.append builds of a comment
CommentRecord(comment) ==
    [id |-> comment.id,
     body |-> comment.body,
     score |-> comment.score,
     created_utc |-> comment.created_utc]

\* a loop that breaks one iteration late
CommentsFor_Late ==
    /\ spc = "for"
    /\ count < Len(comments_list)
    /\ ~(count > comment_limit)
    /\ comments' = Append(comments, CommentRecord(comments_list[count + 1]))
    /\ count' = count + 1
    /\ UNCHANGED << tool, time_filter, limit, comment_limit, clock, forest, spc,
                    found, submissions, threshold, details_list, pidx, submission,
                    expanded, comments_list, results, fetched, sret, sexc >>
    /\ UNCHANGED client

\* one iteration of `for comment in comments_list` that does not break
CommentsFor ==
    /\ spc = "for"
    /\ count < Len(comments_list)
    /\ ~(count >= comment_limit)
    /\ comments' = Append(comments, CommentRecord(comments_list[count + 1]))
    /\ count' = count + 1
    /\ UNCHANGED << tool, time_filter, limit, comment_limit, clock, forest, spc,
                    found, submissions, threshold, details_list, pidx, submission,
                    expanded, comments_list, results, fetched, sret, sexc >>
    /\ UNCHANGED client

\* details['comments'] = comments
WithComments(details, cs) ==
    [f \in DOMAIN details \cup {"comments"} |->
        IF f = "comments" THEN cs ELSE details[f]]

\* the loop breaks or is exhausted and get_submission_comments returns results:
\* to the Tool Host's caller, or to search_comments_in_posts, which stores them
\* in the record, appends the record and goes to the next post
CommentsReturn ==
    /\ spc = "for"
    /\ count >= comment_limit \/ count >= Len(comments_list)
    /\ IF tool = "get_submission_comments"
       THEN /\ sret' = comments
            /\ spc' = "returned"
            /\ UNCHANGED << details_list, results, pidx >>
       ELSE /\ details_list' =
                 [details_list EXCEPT ![pidx] = WithComments(@, comments)]
            /\ results' = Append(results, details_list'[pidx])
            /\ pidx' = pidx + 1
            /\ spc' = "posts"
            /\ UNCHANGED sret
    /\ UNCHANGED << tool, time_filter, limit, comment_limit, clock, forest, found,
                    submissions, threshold, submission, expanded, comments_list,
                    count, comments, fetched, sexc >>
    /\ UNCHANGED client

\* the loop over posts_details is exhausted: return results
SearchCommentsReturn ==
    /\ spc = "posts"
    /\ pidx > Len(details_list)
    /\ sret' = results
    /\ spc' = "returned"
    /\ UNCHANGED << tool, time_filter, limit, comment_limit, clock, forest, found,
                    submissions, threshold, details_list, pidx, submission, expanded,
                    comments_list, count, comments, results, fetched, sexc >>
    /\ UNCHANGED client

\* ------------------------------------------------------- specification
\* the client process: main() runs one entry point on a new MCPClient
Init == mode \in Modes /\ ClientInit /\ ServerIdle

Next ==
    \/ ChatInput
    \/ ChatInputRaise
    \/ ChatResponse
    \/ ChatExcept
    \/ QueryLoopCall
    \/ QueryLoopReturn
    \/ QueryLoopExcept
    \/ GptCall
    \/ GptDone
    \/ ClaudeListTools
    \/ ClaudeListToolsRaise
    \/ ClaudeCreate
    \/ ClaudeCreateRaise
    \/ ClaudeForText
    \/ ClaudeCallTool
    \/ ClaudeCallToolRaise
    \/ ClaudeNext
    \/ ClaudeNextNoText
    \/ ClaudeNextRaise
    \/ ClaudeReturn
    \/ GptListTools
    \/ GptListToolsRaise
    \/ GptCreate
    \/ GptCreateRaise
    \/ GptWhileToolCalls
    \/ GptBreak
    \/ GptDecodeRaise
    \/ GptCallTool
    \/ GptCallToolRaise

Spec == Init /\ [][Next]_vars

\* the server process: one invocation of one tool function
ServerInit == mode = "server" /\ ClientInit /\ ServerIdle

ServerNext ==
    \/ InvokeSearchPosts
    \/ InvokeGetSubmissionComments
    \/ InvokeSearchCommentsInPosts
    \/ Search
    \/ SearchRaise
    \/ SearchPostsReturn
    \/ FetchSubmission
    \/ ReplaceMore
    \/ ReplaceMoreRaise
    \/ CommentsList
    \/ CommentsFor
    \/ CommentsReturn
    \/ SearchCommentsReturn

ServerSpec == ServerInit /\ [][ServerNext]_vars

\* ------------------------------------------------------------- claims
\* the tool-invocation requests of a completion, in the order emitted
ToolRequests(c) ==
    IF provider = "claude"
    THEN SelectSeq(c, LAMBDA f : f.type = "tool_use")
    ELSE c.tool_calls

\* the call identifier of a tool-invocation request
RequestId(r) == r.id

\* the text fragments of a completion, in the order emitted
TextFragments(c) ==
    IF provider = "claude"
    THEN LET texts == SelectSeq(c, LAMBDA f : f.type = "text")
         IN  [j \in 1..Len(texts) |-> texts[j].text]
    ELSE IF c.content # "" THEN << c.content >> ELSE << >>

\* the trace fragment of a tool-invocation request
RequestTrace(r) ==
    IF provider = "claude"
    THEN Trace(r.name, r.input)
    ELSE Trace(r.function.name, JsonLoads(r.function.arguments.val))

\* every result content the Tool Host can return
HostResults == {HostResult(n, k) : n \in 1..(MaxCalls + 1), k \in 1..(MaxResponses + 1)}

\* a message that carries a tool's result
IsToolResult(m) ==
    \/ m.role = "tool"
    \/ m.role = "user" /\ m.content \in HostResults

\* whether assistant message a requested the tool call that m answers; a result
\* message without a call identifier is paired with any assistant message
RequestedBy(a, m) ==
    /\ a.role = "assistant"
    /\ "tool_call_id" \in DOMAIN m =>
         /\ "tool_calls" \in DOMAIN a
         /\ \E j \in 1..Len(a.tool_calls) : a.tool_calls[j].id = m.tool_call_id

\* the messages the running call has appended, from its user message on
Turn == SubSeq(messages, turnStart, Len(messages))

\* s1 \o s2 \o ... for a sequence of sequences
RECURSIVE Flatten(_)
Flatten(ss) == IF ss = <<>> THEN <<>> ELSE ss[1] \o Flatten(Tail(ss))

\* C1: respond returns only when the most recent completion received holds no
\* tool-invocation request
C1_ReturnsOnlyWithoutRequests ==
    pc = "returned" => ToolRequests(Last(completions)) = <<>>

\* C2: while no call has raised, every tool-result message of the history is
\* immediately preceded by the assistant message that requested the tool call
C2_ResultFollowsRequest ==
    nRaised = 0 =>
        \A i \in 1..Len(messages) :
            IsToolResult(messages[i]) =>
                i > 1 /\ RequestedBy(messages[i - 1], messages[i])

\* C3: when the LLM first requests one tool and then returns plain text, the
\* call leaves in the history, in order, the user message, the assistant
\* tool-request message, the tool-result message and the final assistant text
C3_TurnRecorded ==
    ( /\ pc = "returned"
      /\ Len(completions) = 2
      /\ Len(ToolRequests(completions[1])) = 1
      /\ ToolRequests(completions[2]) = <<>>
      /\ Len(TextFragments(completions[2])) = 1 )
    => /\ Len(Turn) = 4
       /\ Turn[1] = [role |-> "user", content |-> query]
       /\ RequestedBy(Turn[2], Turn[3])
       /\ IsToolResult(Turn[3])
       /\ Turn[4].role = "assistant"
       /\ Turn[4].content = TextFragments(completions[2])[1]

\* the output fragments the completions received call for: per completion its
\* text fragments, then one trace per tool request
ExpectedFragments ==
    Flatten([i \in 1..Len(completions) |->
                TextFragments(completions[i])
                \o [j \in 1..Len(ToolRequests(completions[i])) |->
                       RequestTrace(ToolRequests(completions[i])[j])]])

\* C4: the value returned is the newline-joined sequence of, per completion in
\* arrival order, its text fragments and then one trace per tool request
C4_ReturnInEmissionOrder ==
    pc = "returned" => ret = Join(ExpectedFragments)

\* the identifiers of every request of every completion received, in order
EmittedRequests ==
    Flatten([i \in 1..Len(completions) |->
                [j \in 1..Len(ToolRequests(completions[i])) |->
                    RequestId(ToolRequests(completions[i])[j])]])

\* the tool-result messages of the running call
TurnResults == SelectSeq(Turn, IsToolResult)

\* C5: when respond returns, the Tool Host has received exactly the requests
\* the LLM emitted in the call, once each and in order, with structured
\* arguments, and the history holds one tool-result message per invocation
C5_EveryRequestForwardedOnce ==
    pc = "returned" =>
        /\ [k \in 1..Len(hostLog) |-> hostLog[k].request] = EmittedRequests
        /\ \A k \in 1..Len(hostLog) : hostLog[k].args = ArgsDict
        /\ [k \in 1..Len(hostLog) |-> hostLog[k].result]
             = [k \in 1..Len(TurnResults) |-> TurnResults[k].content]

\* whether a completion request carries the system prompt, as a parameter or as
\* the first message of the history
GivenSystem(r) ==
    \/ "system" \in DOMAIN r /\ r.system = system_prompt
    \/ /\ r.messages # <<>>
       /\ r.messages[1] = [role |-> "system", content |-> system_prompt]

\* whether a completion request carries the adapted tool catalog
GivenTools(r) ==
    /\ "tools" \in DOMAIN r
    /\ r.tools = IF provider = "claude" THEN AdaptClaude(ListedTools)
                 ELSE AdaptGpt(ListedTools)

\* C6: every completion request of a call is given the session history, the
\* system prompt and the adapted tool catalog
C6_RequestsCarryEverything ==
    \A i \in 1..Len(llmLog) :
        /\ IsPrefix(llmLog[i].messages, messages)
        /\ Len(llmLog[i].messages) >= turnStart
        /\ GivenSystem(llmLog[i])
        /\ GivenTools(llmLog[i])

\* the user messages of the history that carry the current query
QueryMessages ==
    SelectSeq(messages, LAMBDA m : m = [role |-> "user", content |-> query])

\* C7: for each query, chat_loop and query_loop call respond at most once and
\* the query is appended to the history at most once; query_loop returns after
\* one call
C7_NoRetries ==
    /\ mode \in {"chat", "query"} => attempts <= 1
    /\ mode = "query" => Len(QueryMessages) <= 1 /\ nCalls <= 1

\* C8: once the Tool Host has raised in a call, the call has raised that same
\* failure and returned no value, and until the next call starts no further
\* completion is requested and no further tool is invoked
C8_HostFailurePropagates ==
    /\ [](hostRaised # None =>
            /\ pc \in {"raised", "idle"}
            /\ exc = hostRaised
            /\ ret = None
            /\ Last(hostLog).result = hostRaised)
    /\ [][hostRaised # None =>
            \/ UNCHANGED << llmLog, completions, hostLog, counts >>
            \/ nCalls' = nCalls + 1]_vars

\* the Tool Host raised on a GPT tool call while a later tool call of the same
\* message was still to come
C8_Witness ==
    /\ provider = "gpt"
    /\ pc = "raised"
    /\ hostRaised # None
    /\ idx < Len(message.tool_calls)

\* C9: every step leaves the old history as a prefix of the new one, and a call
\* that raised has left at least its user message in the history
C9_HistoryOnlyGrows ==
    /\ [][IsPrefix(messages, messages')]_vars
    /\ [](pc = "raised" =>
            /\ Len(messages) >= turnStart
            /\ messages[turnStart] = [role |-> "user", content |-> query])

\* a second call raised after it had appended a tool result behind its user message
C9_Witness ==
    /\ pc = "raised"
    /\ nCalls = 2
    /\ turnStart > 1
    /\ Len(messages) > turnStart

\* C10 as stated: an error raised by a query leaves chat_loop running, and
\* chat_loop has ended only when the line read last is quit
C10_EndsOnlyOnLiteralQuit ==
    /\ (mode = "chat" /\ pc = "raised") => loop = "await"
    /\ (mode = "chat" /\ loop = "exited") => line = <<"q", "u", "i", "t">>

\* C10 amended: an error raised by a query sends chat_loop back to reading
\* input, and chat_loop has ended only when the line read last is quit once
\* stripped of surrounding whitespace and lowercased
C10_EndsOnlyOnQuitLine ==
    /\ []((mode = "chat" /\ pc = "raised") => loop = "await")
    /\ []((mode = "chat" /\ loop = "exited") => Str(Lower(Strip(line))) = "quit")
    /\ [][(mode = "chat" /\ pc = "raised") => (loop' = "ready" /\ pc' = "idle")]_vars

\* chat_loop ended on a line other than the literal quit, after a failed query
\* and a later query
C10_Witness ==
    /\ mode = "chat"
    /\ loop = "exited"
    /\ nRaised >= 1
    /\ nCalls >= 2
    /\ line # <<"q", "u", "i", "t">>

\* C11: every tool-result message of the history carries a call identifier, and
\* it is the identifier of the request the Tool Host answered with that content
C11_ResultCarriesCallId ==
    /\ \A i \in 1..Len(messages) :
           IsToolResult(messages[i]) => "tool_call_id" \in DOMAIN messages[i]
    /\ turnStart > 0 => \A k \in 1..Len(TurnResults) :
           /\ "tool_call_id" \in DOMAIN TurnResults[k]
           /\ TurnResults[k].tool_call_id = hostLog[k].request
           /\ TurnResults[k].content = hostLog[k].result

\* C12: the Driver awaits at most one call at any time; a call that is answered
\* is the one call that was awaited; and while a tool invocation is awaited the
\* result of every earlier invocation of the call is already in the history
C12_OneCallOutstanding ==
    /\ [](Len(inflight) <= 1)
    /\ [](\A j \in 1..Len(inflight) :
             inflight[j].op = "call_tool" =>
                 [k \in 1..Len(hostLog) |-> hostLog[k].result]
                   = [k \in 1..Len(TurnResults) |-> TurnResults[k].content])
    /\ [][/\ Len(hostLog') > Len(hostLog) =>
               inflight = << [op |-> "call_tool", request |-> Last(hostLog').request] >>
          /\ Len(llmLog') > Len(llmLog) => inflight = << [op |-> "create"] >>]_vars

\* the second tool call of a GPT message is awaited, the first one's result is
\* in the history
C12_Witness ==
    /\ provider = "gpt"
    /\ pc = "for"
    /\ idx = 2
    /\ Len(inflight) = 1
    /\ inflight[1].op = "call_tool"
    /\ Len(hostLog) = 1
    /\ Last(messages).role = "tool"

\* ------------------------------------------------ claims about the server
\* the windows of the five time filters, in seconds
Windows ==
    [hour |-> 3600, day |-> 86400, week |-> 7 * 86400, month |-> 30 * 86400,
     year |-> 365 * 86400]

\* the identifiers of a list of submissions or of records
Ids(list) == [j \in 1..Len(list) |-> list[j].id]

\* the creation times of a list of submissions or of records
Times(list) == [j \in 1..Len(list) |-> list[j].created_utc]

\* C13: with one of the five time filters, search_posts returns exactly the
\* details of the submissions found whose creation time is at or after now minus
\* the filter's window, in the order found
C13_CutoffFilter ==
    (tool = "search_posts" /\ spc = "returned" /\ time_filter \in DOMAIN Windows) =>
        LET cutoff == clock - Windows[time_filter]
            recent == SelectSeq(found, LAMBDA sub : ~(sub.created_utc < cutoff))
        IN  /\ \A j \in 1..Len(sret) : sret[j].created_utc >= cutoff
            /\ Ids(sret) = Ids(recent)
            /\ sret = [j \in 1..Len(recent) |-> get_post_details(recent[j])]

\* search_posts with the month filter dropped the first submission found, one
\* second too old, and kept the second, created exactly at the cutoff
C13_Witness ==
    /\ tool = "search_posts"
    /\ spc = "returned"
    /\ time_filter = "month"
    /\ Len(found) = 2
    /\ found[1].created_utc = clock - (30 * 86400) - 1
    /\ Times(sret) = << clock - (30 * 86400) >>

\* C14: with the filter "all" or any value that is not one of the five filters,
\* search_posts returns the details of every submission found, in the order found
C14_NoCutoff ==
    (tool = "search_posts" /\ spc = "returned" /\ time_filter \notin DOMAIN Windows) =>
        /\ Len(sret) = Len(found)
        /\ sret = [j \in 1..Len(found) |-> get_post_details(found[j])]

\* search_posts with the filter "all" returned a submission older than a year
\* followed by a new one
C14_Witness ==
    /\ tool = "search_posts"
    /\ spc = "returned"
    /\ time_filter = "all"
    /\ Len(sret) = 2
    /\ sret[1].created_utc < clock - (365 * 86400)
    /\ sret[2].created_utc = clock

\* the flattened comment list of submission id once its forest is expanded
Flattened(id) ==
    SelectSeq(CommentForest(id, forest), LAMBDA c : c.kind = "comment")

\* the records of the first min(n, Len(list)) comments of list
FirstRecords(list, n) ==
    [j \in 1..(IF n < Len(list) THEN n ELSE Len(list)) |->
        [id |-> list[j].id, body |-> list[j].body, score |-> list[j].score,
         created_utc |-> list[j].created_utc]]

\* C15: get_submission_comments(post, limit=N) returns at most N records, the
\* records of the first min(N, number of comments) comments of the flattened
\* list in order, and in every invocation the forest has been expanded exactly
\* once when the list is read and from then on
C15_FirstComments ==
    /\ []((tool = "get_submission_comments" /\ spc = "returned") =>
            /\ Len(sret) <= comment_limit
            /\ sret = FirstRecords(Flattened(submission.id), comment_limit)
            /\ expanded = 1)
    /\ [](spc \in {"list", "for"} => expanded = 1)
    /\ [][comments_list' # comments_list => expanded = 1 /\ expanded' = 1]_vars

\* get_submission_comments with limit 1 returned the first of two comments
C15_Witness ==
    /\ tool = "get_submission_comments"
    /\ spc = "returned"
    /\ comment_limit = 1
    /\ expanded = 1
    /\ Len(comments_list) = 2
    /\ Ids(sret) = << comments_list[1].id >>

\* what the search_posts call inside search_comments_in_posts returned
InternalPosts ==
    LET kept == Kept(found, threshold)
    IN  [j \in 1..Len(kept) |-> get_post_details(kept[j])]

C17_PlainTextReturned ==
    (Len(completions) >= 1 /\ ToolRequests(completions[1]) = <<>>) =>
        /\ Len(llmLog) = 1
        /\ Len(completions) = 1
        /\ hostLog = <<>>
        /\ pc # "raised"
        /\ pc = "returned" =>
              /\ ret = Join(TextFragments(completions[1]))
              /\ Len(TextFragments(completions[1])) = 1 =>
                    ret = TextFragments(completions[1])[1]

\* process_query_gpt returned the text of a first completion without tool calls
C17_Witness ==
    /\ provider = "gpt"
    /\ pc = "returned"
    /\ Len(completions) = 1
    /\ ToolRequests(completions[1]) = <<>>
    /\ TextFragments(completions[1]) = << ret >>

\* the completions received in the running call that hold a tool request
ToolRequesting == SelectSeq(completions, LAMBDA c : ToolRequests(c) # <<>>)

\* C18: a call that returns has made one completion request per round: one per
\* completion that held tool requests, plus one
C18_OneRequestPerRound ==
    pc = "returned" =>
        /\ Len(llmLog) = Len(ToolRequesting) + 1
        /\ Len(llmLog) = Len(completions)

\* the messages of the running call that are copies of completion c
Copies(c) == SelectSeq(Turn, LAMBDA m : m = c)

\* the tool-result messages of the running call that answer a request of c
Answers(c) ==
    SelectSeq(Turn, LAMBDA m :
        /\ m.role = "tool"
        /\ \E j \in 1..Len(c.tool_calls) : c.tool_calls[j].id = m.tool_call_id)

\* C19: in process_query_gpt every completion is in the history at most once,
\* and once the tool calls of a completion have all been answered the history
\* holds the completion once and one tool-result message per tool call
C19_AssistantAppendedOnce ==
    provider = "gpt" =>
        /\ \A i \in 1..Len(completions) : Len(Copies(completions[i])) <= 1
        /\ pc = "next" =>
              /\ Len(Copies(Last(completions))) = 1
              /\ Len(Answers(Last(completions))) = Len(Last(completions).tool_calls)

\* C20: in process_query_claude, with k the number of tool-use fragments of the
\* first completion, the for loop iterates that completion only; whatever the
\* follow-up completions hold, at most 1 + k completion requests and k tool
\* invocations are made, every invocation is of a request of the first
\* completion, and a call that returns has made exactly 1 + k and k
C20_FirstCompletionOnly ==
    (provider = "claude" /\ Len(completions) >= 1) =>
        LET first == ToolRequests(completions[1])
            k == Len(first)
        IN  /\ content_list = completions[1]
            /\ idx <= Len(content_list) + 1
            /\ Len(llmLog) <= 1 + k
            /\ Len(hostLog) <= k
            /\ \A j \in 1..Len(hostLog) : hostLog[j].request = first[j].id
            /\ pc = "returned" =>
                  /\ Len(llmLog) = 1 + k
                  /\ Len(completions) = 1 + k
                  /\ Len(hostLog) = k

\* process_query_claude returned after a first completion with two tool-use
\* fragments and a follow-up that held a tool request of its own
C20_Witness ==
    /\ provider = "claude"
    /\ pc = "returned"
    /\ Len(ToolRequests(completions[1])) = 2
    /\ Len(llmLog) = 3
    /\ Len(hostLog) = 2
    /\ ToolRequests(completions[2]) # <<>>

====
